---- MODULE Spec2Model ----
(***************************************************************************)
(* Model of the RDA lock client: the Lock handle (Lock.mjs) with its       *)
(* status state machine, the acquisition loop of lock(), the keep-alive    *)
(* activity, free() and cancel(), the LockClient factory, and the remote   *)
(* lock service and registry the handle talks to.                          *)
(*                                                                         *)
(* Every await of the code is a position of a coroutine: lockPc for        *)
(* lock(), kaPc for keepAlive(), freePc for free(), cancelPc for cancel(). *)
(* Time is in milliseconds and advances from one timer event to the next.  *)
(***************************************************************************)
EXTENDS Integers, Sequences, FiniteSets, TLC

\* ---------------------------------------------------------------- bounds

\* the two lock handles the model drives (both on the same resource)
Handles == {"a", "b"}

\* the model stops the clock here (milliseconds)
MaxTime == 5000

\* options the model passes to createLock / adoptLock (seconds)
TtlChoices == {3}
TimeoutChoices == {1, 60}

\* lock identifiers a caller may pass to adoptLock
AdoptIds == {1}

\* the locks other clients of the service take in a run
MaxOtherLocks == 2

\* -------------------------------------------------------------- constants

\* Lock.constructor: this.backOffUpperBound = 15
backOffUpperBound == 15

\* lockStatusMap, with 0 for the undefined status of a handle under construction
lockStatusMap(name) ==
    CASE name = "initialized" -> 100
      [] name = "acquiring" -> 200
      [] name = "acquired" -> 300
      [] name = "freeing" -> 400
      [] name = "freed" -> 500
      [] name = "canceled" -> 850
      [] name = "timeout" -> 900
      [] name = "failed" -> 999
      [] OTHER -> 0

StatusNames ==
    {"initialized", "acquiring", "acquired", "freeing", "freed", "canceled",
     "timeout", "failed"}

\* (backOffFactor ** k) * 1000, backOffFactor = 1.3, in microseconds
RECURSIVE BackOffMicros(_)
BackOffMicros(k) == IF k = 0 THEN 1000000 ELSE (BackOffMicros(k - 1) * 13) \div 10

\* the delay lock() waits after a conflict, in milliseconds, for the counter value n
BackOffMs(n) ==
    LET iterationCount == IF backOffUpperBound < n THEN backOffUpperBound ELSE n
    IN BackOffMicros(iterationCount) \div 1000

\* keepAlive(): Math.round(this.ttl * 0.66 * 1000)
KeepAliveMs(ttlSeconds) == ttlSeconds * 660

\* ------------------------------------------------------------------ state

VARIABLES
    locks,      \* the Lock instance of each handle: its fields and its coroutines
    svc,        \* the lock service's record for the resource: [id, exp, ttl, by]
    nextId,     \* the identifier the service grants next
    now,        \* Date.now(), milliseconds
    slow,       \* TRUE once time has passed while a registry or service call was pending
    world,      \* what the run explores: "solo" or "pair" (fixed by Init)
    ev          \* the step taken last: [op, h, res]
\* Beside the fields of the class, a Lock record holds the positions of its coroutines
\* (lockPc, kaPc, freePc, cancelPc), how lock() and free() ended (lockResult,
\* freeResult), the status free() started from (freeFrom), the number of delete
\* requests sent (deleteCount), the time at which the delete request succeeded
\* (freedAt, -1 before) and where lock() stood at the latest cancel() since its latest
\* create request was sent (canceledAt).

vars == <<locks, svc, nextId, now, slow, world, ev>>

NoDelay == [st |-> "none", due |-> 0]
NoLock == [id |-> 0, exp |-> 0, ttl |-> 0, by |-> ""]

\* a Lock instance before its constructor has run
Unconstructed ==
    [currentStatusName |-> "undefined", currentStatus |-> 0, lockId |-> 0,
     resourceId |-> "", ttl |-> 0, timeout |-> 0, doKeepAlive |-> FALSE,
     lockCallCount |-> 0, tryLockTimeout |-> NoDelay, keepAliveTimeout |-> NoDelay,
     lockPc |-> "idle", lockStart |-> 0, lockResult |-> "none",
     kaPc |-> "idle",
     freePc |-> "idle", freeResult |-> "none", freeFrom |-> "", deleteCount |-> 0,
     freedAt |-> -1,
     cancelPc |-> "idle", canceledAt |-> "never"]

\* what Delay.cancel() does to a wait that is still pending: the promise never
\* settles, it resolves at once, or it rejects at once
DelayCancelOutcomes == {"never", "resolve", "reject"}

\* ------------------------------------------------------------- setStatus

\* setStatus without its guard
setStatusRejectsNothing(cur, statusName) == FALSE

\* setStatus with > for >= in its guard
setStatusRejectsLower(cur, statusName) ==
    cur # 0 /\ cur > lockStatusMap(statusName)

\* setStatus: the guard that refuses a status that is not higher than the current one
setStatusRejects(cur, statusName) ==
    cur # 0 /\ cur >= lockStatusMap(statusName)

\* setStatus throws: an unknown name always, a known one when the guard refuses it
setStatusThrows(l, statusName) ==
    IF statusName \notin StatusNames
    THEN TRUE
    ELSE setStatusRejects(l.currentStatus, statusName)

\* the assignment at the end of setStatus
assignStatus(l, statusName) ==
    [l EXCEPT !.currentStatus = lockStatusMap(statusName),
              !.currentStatusName = statusName]

\* the Lock after setStatus(statusName), thrown or not
setStatus(l, statusName) ==
    IF statusName \notin StatusNames
    THEN IF setStatusRejects(l.currentStatus, "failed") THEN l ELSE assignStatus(l, "failed")
    ELSE IF setStatusRejects(l.currentStatus, statusName) THEN l ELSE assignStatus(l, statusName)

\* ---------------------------------------------------- isAcquired, getId

\* isAcquired(): !!this.lockId
isAcquired(l) == l.lockId # 0

\* getId(): the lock id, or an error when isAcquired() is false
getId(l) ==
    IF isAcquired(l) THEN [threw |-> FALSE, id |-> l.lockId] ELSE [threw |-> TRUE, id |-> 0]

\* ------------------------------------------------------------------ Delay

\* new Delay().wait(ms) started at time t
startDelay(t, ms) == [st |-> "pending", due |-> t + ms]

\* Delay.cancel()
cancelDelay(d, c) ==
    IF d.st = "pending"
    THEN IF c = "resolve" THEN [st |-> "released", due |-> 0] ELSE [st |-> "canceled", due |-> 0]
    ELSE d

\* the outcomes of cancel() a caller of it has to reckon with
cancelOutcomes(d) == IF d.st = "pending" THEN DelayCancelOutcomes ELSE {"never"}

\* the wait of the delay is over: its timer ran out, or cancel() resolved it
delayOver(d, t) == (d.st = "pending" /\ d.due <= t) \/ d.st = "released"

firedDelay == [st |-> "fired", due |-> 0]

\* the delay whose wait is over: its timer has fired, or it stays canceled
endedDelay(d) == IF d.st = "released" THEN [st |-> "canceled", due |-> 0] ELSE firedDelay

\* ----------------------------------------------------- Lock: the coroutines

\* keepAlive() up to its first await: a new Delay, waited on for two thirds of the ttl
keepAliveStart(l, t) ==
    [l EXCEPT !.keepAliveTimeout = startDelay(t, KeepAliveMs(l.ttl)),
              !.kaPc = "wait"]

\* keepAlive() after its renew request succeeded: the function returns
keepAliveRenewed(l, t) == [l EXCEPT !.kaPc = "done"]

\* free(), cancel(): this.keepAliveTimeout.cancel(), and what it does to keepAlive()
cancelKeepAlive(l, c) ==
    IF l.keepAliveTimeout.st = "pending"
    THEN [l EXCEPT !.keepAliveTimeout = cancelDelay(@, c),
                   !.kaPc = CASE c = "never" -> "hung"
                              [] c = "reject" -> "err"
                              [] OTHER -> @]
    ELSE l

\* free() with its status check left out
freeStatusCheckMissing(l, ignoreStatus) == FALSE

\* the status check free() starts with
freeStatusCheckThrows(l, ignoreStatus) ==
    ~ignoreStatus /\ l.currentStatusName # "acquired"

\* free(ignoreStatus) throws before its first await
freeThrows(l, ignoreStatus, c) ==
    \/ freeStatusCheckThrows(l, ignoreStatus)
    \/ setStatusThrows(cancelKeepAlive(l, c), "freeing")

\* free(ignoreStatus) up to its first await (the registry call), or up to its throw
freeStart(l, ignoreStatus, c) ==
    IF freeStatusCheckThrows(l, ignoreStatus)
    THEN l
    ELSE LET l1 == cancelKeepAlive(l, c)
         IN IF setStatusThrows(l1, "freeing")
            THEN setStatus(l1, "freeing")
            ELSE [setStatus(l1, "freeing") EXCEPT
                     !.freePc = "resolve", !.freeResult = "none",
                     !.freeFrom = l.currentStatusName]

\* lock() after its loop: start the keep-alive, or set the status timeout and throw
lockAfterLoop(l, t) ==
    IF l.currentStatusName = "acquired"
    THEN LET l1 == IF l.doKeepAlive THEN keepAliveStart(l, t) ELSE l
         IN [l1 EXCEPT !.lockPc = "done", !.lockResult = "ok", !.lockStart = 0]
    ELSE IF setStatusThrows(l, "timeout")
         THEN [setStatus(l, "timeout") EXCEPT
                  !.lockPc = "done", !.lockResult = "status", !.lockStart = 0]
         ELSE [setStatus(l, "timeout") EXCEPT
                  !.lockPc = "done", !.lockResult = "timeout", !.lockStart = 0]

\* lock()'s loop condition with >= for >
lockDeadlineOpenInclusive(l, t) == (l.lockStart + (l.timeout * 1000)) >= t

\* the condition of lock()'s while loop
lockDeadlineOpen(l, t) == (l.lockStart + (l.timeout * 1000)) > t

\* a loop that asks the registry for the first attempt only and posts its retries
\* to the address it has
lockLoopHeadCachedHost(l, t) ==
    IF lockDeadlineOpen(l, t)
    THEN [l EXCEPT !.lockPc = IF l.tryLockTimeout.st = "none" THEN "resolve" ELSE "post"]
    ELSE lockAfterLoop(l, t)

\* lock() at the head of its loop: tryToLock() (its registry call), or leave the loop
lockLoopHead(l, t) ==
    IF lockDeadlineOpen(l, t)
    THEN [l EXCEPT !.lockPc = "resolve"]
    ELSE lockAfterLoop(l, t)

\* lock() rejects with the error `kind`
lockRejects(l, kind) ==
    [l EXCEPT !.lockPc = "done", !.lockResult = kind, !.lockStart = 0]

\* lock() without the break that leaves the loop once the lock is granted
lockGrantedNoBreak(l, id, t, c) ==
    [[setStatus(l, "acquired") EXCEPT !.lockId = id] EXCEPT
        !.tryLockTimeout = startDelay(t, BackOffMs(l.lockCallCount)), !.lockPc = "wait"]

\* lock() after tryToLock() returned the identifier `id`
lockGranted(l, id, t, c) ==
    IF l.currentStatus > lockStatusMap("acquired")
    THEN IF freeThrows(l, TRUE, c)
         THEN lockRejects(freeStart(l, TRUE, c), "status")
         ELSE [freeStart(l, TRUE, c) EXCEPT !.lockPc = "free"]
    ELSE IF setStatusThrows(l, "acquired")
         THEN lockRejects(setStatus(l, "acquired"), "status")
         ELSE lockAfterLoop([setStatus(l, "acquired") EXCEPT !.lockId = id], t)

\* lock() after tryToLock() returned undefined: back off
lockConflict(l, t) ==
    [l EXCEPT !.tryLockTimeout = startDelay(t, BackOffMs(l.lockCallCount)),
              !.lockPc = "wait"]

\* cancel(): this.tryLockTimeout.cancel(), and what it does to lock()
cancelTryLock(l, c) ==
    IF l.tryLockTimeout.st = "pending"
    THEN IF c = "reject"
         THEN lockRejects([l EXCEPT !.tryLockTimeout = cancelDelay(@, c)], "delay")
         ELSE [l EXCEPT !.tryLockTimeout = cancelDelay(@, c),
                        !.lockPc = IF c = "never" THEN "hung" ELSE @]
    ELSE l

\* free() is over with `result`: whoever awaits it goes on
freeSettled(l, result, t, c) ==
    LET l1 == [l EXCEPT !.freePc = "done", !.freeResult = result]
        l2 == IF l1.cancelPc = "free"
              THEN IF result = "ok"
                   THEN [cancelTryLock(l1, c) EXCEPT !.cancelPc = "done"]
                   ELSE [l1 EXCEPT !.cancelPc = "err"]
              ELSE l1
    IN IF l2.lockPc = "free"
       THEN IF result = "ok" THEN lockAfterLoop(l2, t) ELSE lockRejects(l2, result)
       ELSE l2

\* free() that forgets the lock id once the lock is deleted
freeDeletedClearsId(l, t, c) ==
    IF setStatusThrows(l, "freed")
    THEN freeSettled([setStatus(l, "freed") EXCEPT !.freedAt = t], "status", t, c)
    ELSE freeSettled([setStatus(l, "freed") EXCEPT !.lockId = 0, !.freedAt = t], "ok", t, c)

\* free() after its delete request succeeded
freeDeleted(l, t, c) ==
    IF setStatusThrows(l, "freed")
    THEN freeSettled([setStatus(l, "freed") EXCEPT !.freedAt = t], "status", t, c)
    ELSE freeSettled([setStatus(l, "freed") EXCEPT !.freedAt = t], "ok", t, c)

\* free() after its delete request failed: the catch handler
freeDeleteFailed(l, t, c) ==
    IF setStatusThrows(l, "failed")
    THEN freeSettled(setStatus(l, "failed"), "status", t, c)
    ELSE freeSettled(setStatus(l, "failed"), "remote", t, c)

\* a catch handler of keepAlive() that rethrows without setting the status
keepAliveRenewFailedKeepsStatus(l) == [l EXCEPT !.kaPc = "err"]

\* keepAlive() after its renew request failed: the catch handler
keepAliveRenewFailed(l) == [setStatus(l, "failed") EXCEPT !.kaPc = "err"]

\* ------------------------------------------------------- the lock service

\* the service holds a lock on the resource at time t
svcHeld(s, t) == s.id # 0 /\ t < s.exp

\* POST /rda-lock.lock: the lock created for a free resource
svcCreate(id, ttlSeconds, t, by) ==
    [id |-> id, exp |-> t + (ttlSeconds * 1000), ttl |-> ttlSeconds, by |-> by]

\* PATCH /rda-lock.lock/:id: the lock lives for another ttl
svcRenew(s, t) == [s EXCEPT !.exp = t + (s.ttl * 1000)]

\* the service knows the lock `id` at time t
svcKnows(s, id, t) == id # 0 /\ s.id = id /\ svcHeld(s, t)

\* the service drops a lock whose ttl has run out
svcExpire(s, t) == IF s.id # 0 /\ s.exp <= t THEN NoLock ELSE s

\* ---------------------------------------------------------------- actions

\* A solo run drives one handle against a service that other clients use too, with
\* every failure of the registry and of the service. A pair run drives two handles
\* for the same resource against a registry and a service that do not fail.
Driven == IF world = "solo" THEN {"a"} ELSE Handles
Results == IF world = "solo" THEN {"ok", "fail"} ELSE {"ok"}
\* a pair run's callers follow the README: lock(), then free(), and no call that throws
Misuse == world = "solo"

Init ==
    /\ locks = [h \in Handles |-> Unconstructed]
    /\ svc = NoLock
    /\ nextId = 1
    /\ now = 0
    /\ slow = FALSE
    /\ world \in {"solo", "pair"}
    /\ ev = [op |-> "init", h |-> "", res |-> ""]

Event(op, h, res) == ev' = [op |-> op, h |-> h, res |-> res]

\* the Lock constructor for a fresh lock
constructFresh(ttlSeconds, timeoutSeconds, keepAlive) ==
    [setStatus(Unconstructed, "initialized") EXCEPT
        !.resourceId = "resource", !.ttl = ttlSeconds, !.timeout = timeoutSeconds,
        !.doKeepAlive = keepAlive, !.lockCallCount = 0]

\* a constructor that takes the lock id and leaves the status of a fresh lock
constructAdoptedAsFresh(id, ttlSeconds, timeoutSeconds, keepAlive) ==
    [setStatus(Unconstructed, "initialized") EXCEPT
        !.lockId = id, !.ttl = ttlSeconds, !.timeout = timeoutSeconds,
        !.doKeepAlive = keepAlive, !.lockCallCount = 0]

\* the Lock constructor for an adopted lock
constructAdopted(id, ttlSeconds, timeoutSeconds, keepAlive) ==
    [Unconstructed EXCEPT
        !.lockId = id, !.currentStatusName = "acquired",
        !.currentStatus = lockStatusMap("acquired"),
        !.ttl = ttlSeconds, !.timeout = timeoutSeconds,
        !.doKeepAlive = keepAlive, !.lockCallCount = 0]

\* LockClient.createLock(resourceId, {ttl, timeout, keepAlive})
createLock(h) ==
    /\ locks[h] = Unconstructed
    /\ h \in Driven
    /\ \E ttlSeconds \in TtlChoices, timeoutSeconds \in TimeoutChoices, keepAlive \in BOOLEAN :
          locks' = [locks EXCEPT ![h] = constructFresh(ttlSeconds, timeoutSeconds, keepAlive)]
    /\ Event("createLock", h, "ok")
    /\ UNCHANGED <<svc, nextId, now, slow, world>>

\* LockClient.adoptLock(lockId, {ttl, timeout, keepAlive})
adoptLock(h) ==
    /\ locks[h] = Unconstructed
    /\ h \in Driven
    /\ world = "solo"
    /\ \E id \in AdoptIds, ttlSeconds \in TtlChoices, timeoutSeconds \in TimeoutChoices,
          keepAlive \in BOOLEAN :
          locks' = [locks EXCEPT ![h] = constructAdopted(id, ttlSeconds, timeoutSeconds, keepAlive)]
    /\ Event("adoptLock", h, "ok")
    /\ UNCHANGED <<svc, nextId, now, slow, world>>

Constructed(h) == locks[h] # Unconstructed

\* Lock.lock(), up to its first await or its throw
lock(h) ==
    /\ Constructed(h)
    /\ Misuse \/ ~setStatusThrows(locks[h], "acquiring")
    /\ LET l == locks[h]
       IN IF setStatusThrows(l, "acquiring")
          THEN /\ locks' = [locks EXCEPT ![h] = setStatus(l, "acquiring")]
               /\ Event("lock", h, "threw")
          ELSE /\ locks' = [locks EXCEPT ![h] =
                      lockLoopHead([setStatus(l, "acquiring") EXCEPT !.lockStart = now], now)]
               /\ Event("lock", h, "started")
    /\ UNCHANGED <<svc, nextId, now, slow, world>>

\* tryToLock(): the registry call returns
tryToLockResolved(h) ==
    /\ locks[h].lockPc = "resolve"
    /\ \E r \in Results :
          /\ locks' = [locks EXCEPT ![h] =
                 IF r = "ok" THEN [@ EXCEPT !.lockPc = "post", !.canceledAt = "never"]
                 ELSE lockRejects(@, "remote")]
          /\ Event("lockResolve", h, r)
    /\ UNCHANGED <<svc, nextId, now, slow, world>>

\* tryToLock(): the create request returns, and lock() goes on with its result
tryToLockResponse(h) ==
    /\ locks[h].lockPc = "post"
    /\ LET l == locks[h]
       IN \/ /\ ~svcHeld(svc, now)
             /\ svc' = svcCreate(nextId, l.ttl, now, h)
             /\ nextId' = nextId + 1
             /\ \/ /\ \E c \in cancelOutcomes(l.keepAliveTimeout) :
                         locks' = [locks EXCEPT ![h] = lockGranted(l, nextId, now, c)]
                   /\ Event("create", h, "created")
                \/ /\ "fail" \in Results
                   /\ locks' = [locks EXCEPT ![h] = lockRejects(l, "protocol")]
                   /\ Event("create", h, "nodata")
          \/ /\ svcHeld(svc, now)
             /\ locks' = [locks EXCEPT ![h] = lockConflict(l, now)]
             /\ Event("create", h, "conflict")
             /\ UNCHANGED <<svc, nextId>>
          \/ /\ "fail" \in Results
             /\ locks' = [locks EXCEPT ![h] = lockRejects(l, "remote")]
             /\ Event("create", h, "fail")
             /\ UNCHANGED <<svc, nextId>>
    /\ UNCHANGED <<now, slow, world>>

\* lock(): the back-off wait is over
tryLockTimeoutOver(h) ==
    /\ locks[h].lockPc = "wait"
    /\ delayOver(locks[h].tryLockTimeout, now)
    /\ locks' = [locks EXCEPT ![h] = lockLoopHead([@ EXCEPT !.tryLockTimeout = endedDelay(@)], now)]
    /\ Event("backoff", h, "over")
    /\ UNCHANGED <<svc, nextId, now, slow, world>>

\* Lock.cancel(), up to its await of free() or to its end
cancel(h) ==
    /\ Constructed(h)
    /\ Misuse
    /\ \E c \in IF locks[h].currentStatusName = "acquired"
                 THEN cancelOutcomes(locks[h].keepAliveTimeout)
                 ELSE cancelOutcomes(locks[h].tryLockTimeout) :
          LET l == [locks[h] EXCEPT !.canceledAt = locks[h].lockPc]
          IN IF l.currentStatusName = "acquired"
             THEN IF freeThrows(l, FALSE, c)
                  THEN /\ locks' = [locks EXCEPT ![h] =
                              [freeStart(l, FALSE, c) EXCEPT !.cancelPc = "err"]]
                       /\ Event("cancel", h, "threw")
                  ELSE /\ locks' = [locks EXCEPT ![h] =
                              [freeStart(l, FALSE, c) EXCEPT !.cancelPc = "free"]]
                       /\ Event("cancel", h, "free")
             ELSE /\ locks' = [locks EXCEPT ![h] =
                         [cancelTryLock(l, c) EXCEPT
                             !.cancelPc = IF @ = "free" THEN @ ELSE "done"]]
                  /\ Event("cancel", h, "done")
    /\ UNCHANGED <<svc, nextId, now, slow, world>>

\* Lock.free(ignoreStatus), up to its first await or its throw
free(h) ==
    /\ Constructed(h)
    /\ \E ignoreStatus \in BOOLEAN, c \in cancelOutcomes(locks[h].keepAliveTimeout) :
          LET l == locks[h]
          IN /\ Misuse \/ (~ignoreStatus /\ ~freeThrows(l, ignoreStatus, c))
             /\ locks' = [locks EXCEPT ![h] = freeStart(l, ignoreStatus, c)]
             /\ Event(IF ignoreStatus THEN "freeIgnoreStatus" ELSE "free", h,
                      IF freeThrows(l, ignoreStatus, c) THEN "threw" ELSE "started")
    /\ UNCHANGED <<svc, nextId, now, slow, world>>

\* free(): the registry call returns
freeResolved(h) ==
    /\ locks[h].freePc = "resolve"
    /\ \E r \in Results, c \in cancelOutcomes(locks[h].tryLockTimeout) :
          /\ locks' = [locks EXCEPT ![h] =
                 IF r = "ok" THEN [@ EXCEPT !.freePc = "delete", !.deleteCount = @ + 1]
                 ELSE freeSettled(@, "remote", now, c)]
          /\ Event("freeResolve", h, r)
    /\ UNCHANGED <<svc, nextId, now, slow, world>>

\* free(): the delete request returns
freeResponse(h) ==
    /\ locks[h].freePc = "delete"
    /\ LET l == locks[h]
       IN \E c \in cancelOutcomes(l.tryLockTimeout) :
          \/ /\ svcKnows(svc, l.lockId, now)
             /\ svc' = NoLock
             /\ locks' = [locks EXCEPT ![h] = freeDeleted(l, now, c)]
             /\ Event("delete", h, "ok")
          \/ /\ "fail" \in Results \/ ~svcKnows(svc, l.lockId, now)
             /\ locks' = [locks EXCEPT ![h] = freeDeleteFailed(l, now, c)]
             /\ Event("delete", h, "fail")
             /\ UNCHANGED svc
    /\ UNCHANGED <<nextId, now, slow, world>>

\* keepAlive(): the wait of two thirds of the ttl is over
keepAliveTimeoutOver(h) ==
    /\ locks[h].kaPc = "wait"
    /\ delayOver(locks[h].keepAliveTimeout, now)
    /\ locks' = [locks EXCEPT ![h] = [@ EXCEPT !.keepAliveTimeout = endedDelay(@),
                                               !.kaPc = "resolve"]]
    /\ Event("keepAlive", h, "over")
    /\ UNCHANGED <<svc, nextId, now, slow, world>>

\* keepAlive(): the registry call returns
keepAliveResolved(h) ==
    /\ locks[h].kaPc = "resolve"
    /\ \E r \in Results :
          /\ locks' = [locks EXCEPT ![h] = [@ EXCEPT !.kaPc = IF r = "ok" THEN "patch" ELSE "err"]]
          /\ Event("keepAliveResolve", h, r)
    /\ UNCHANGED <<svc, nextId, now, slow, world>>

\* keepAlive(): the renew request returns
keepAliveResponse(h) ==
    /\ locks[h].kaPc = "patch"
    /\ LET l == locks[h]
       IN \/ /\ svcKnows(svc, l.lockId, now)
             /\ svc' = svcRenew(svc, now)
             /\ locks' = [locks EXCEPT ![h] = keepAliveRenewed(l, now)]
             /\ Event("renew", h, "ok")
          \/ /\ "fail" \in Results \/ ~svcKnows(svc, l.lockId, now)
             /\ locks' = [locks EXCEPT ![h] = keepAliveRenewFailed(l)]
             /\ Event("renew", h, "fail")
             /\ UNCHANGED svc
    /\ UNCHANGED <<nextId, now, slow, world>>

\* another client of the lock service takes the lock of the resource, renews it or
\* frees it
otherClient ==
    /\ world = "solo"
    /\ \/ /\ ~svcHeld(svc, now)
          /\ nextId <= MaxOtherLocks
          /\ \E ttlSeconds \in TtlChoices : svc' = svcCreate(nextId, ttlSeconds, now, "other")
          /\ nextId' = nextId + 1
          /\ Event("other", "", "lock")
       \/ /\ svcHeld(svc, now)
          /\ svc.by = "other"
          /\ svc.exp < now + (svc.ttl * 1000)
          /\ svc' = svcRenew(svc, now)
          /\ Event("other", "", "renew")
          /\ UNCHANGED nextId
       \/ /\ svcHeld(svc, now)
          /\ svc.by = "other"
          /\ svc' = NoLock
          /\ Event("other", "", "free")
          /\ UNCHANGED nextId
    /\ UNCHANGED <<locks, now, slow, world>>

\* a registry or service call of handle h is pending
callPending(l) ==
    \/ l.lockPc \in {"resolve", "post"}
    \/ l.kaPc \in {"resolve", "patch"}
    \/ l.freePc \in {"resolve", "delete"}

\* the times at which something is due: timers, lock() deadlines, the ttl of the lock
dueTimes ==
    {locks[h].tryLockTimeout.due : h \in {x \in Handles : locks[x].tryLockTimeout.st = "pending"}}
    \cup {locks[h].keepAliveTimeout.due :
             h \in {x \in Handles : locks[x].keepAliveTimeout.st = "pending"}}
    \cup {locks[h].lockStart + (locks[h].timeout * 1000) :
             h \in {x \in Handles : locks[x].lockPc \in {"resolve", "post", "wait"}}}
    \cup (IF svc.id # 0 THEN {svc.exp} ELSE {})

Min(S) == CHOOSE x \in S : \A y \in S : x <= y

\* time passes, up to the next due time; a wait that is over is resumed first
Advance ==
    /\ \A h \in Handles :
          /\ ~delayOver(locks[h].tryLockTimeout, now)
          /\ ~delayOver(locks[h].keepAliveTimeout, now)
    /\ LET later == {t \in dueTimes : t > now /\ t <= MaxTime}
       IN /\ later # {}
          /\ now' = Min(later)
          /\ svc' = svcExpire(svc, Min(later))
    /\ slow' = (slow \/ \E h \in Handles : callPending(locks[h]))
    /\ Event("advance", "", "")
    /\ UNCHANGED <<locks, nextId, world>>

Next ==
    \/ \E h \in Handles : createLock(h)
    \/ \E h \in Handles : adoptLock(h)
    \/ \E h \in Handles : lock(h)
    \/ \E h \in Handles : tryToLockResolved(h)
    \/ \E h \in Handles : tryToLockResponse(h)
    \/ \E h \in Handles : tryLockTimeoutOver(h)
    \/ \E h \in Handles : cancel(h)
    \/ \E h \in Handles : free(h)
    \/ \E h \in Handles : freeResolved(h)
    \/ \E h \in Handles : freeResponse(h)
    \/ \E h \in Handles : keepAliveTimeoutOver(h)
    \/ \E h \in Handles : keepAliveResolved(h)
    \/ \E h \in Handles : keepAliveResponse(h)
    \/ otherClient
    \/ Advance

Spec == Init /\ [][Next]_vars

\* ------------------------------------------------- setStatus on its own

\* the names setStatus is called with here: the eight of lockStatusMap and one that
\* the map does not have
StatusRequests == StatusNames \cup {"unknown"}

\* handles as their constructor leaves them: fresh ones and adopted ones
StatusInit ==
    /\ locks \in [Handles ->
           {constructFresh(ttlSeconds, timeoutSeconds, keepAlive) :
               ttlSeconds \in TtlChoices, timeoutSeconds \in TimeoutChoices,
               keepAlive \in BOOLEAN}
           \cup {constructAdopted(id, ttlSeconds, timeoutSeconds, FALSE) :
               id \in AdoptIds, ttlSeconds \in TtlChoices,
               timeoutSeconds \in TimeoutChoices}]
    /\ svc = NoLock
    /\ nextId = 1
    /\ now = 0
    /\ slow = FALSE
    /\ world = "solo"
    /\ ev = [op |-> "init", h |-> "", res |-> "", arg |-> ""]

\* one call of setStatus(statusName) on handle h, with the name and the outcome in ev
callSetStatus(h) ==
    /\ \E statusName \in StatusRequests :
          /\ locks' = [locks EXCEPT ![h] = setStatus(@, statusName)]
          /\ ev' = [op |-> "setStatus", h |-> h,
                    res |-> IF setStatusThrows(locks[h], statusName) THEN "threw" ELSE "ok",
                    arg |-> statusName]
    /\ UNCHANGED <<svc, nextId, now, slow, world>>

StatusNext == \E h \in Handles : callSetStatus(h)

StatusSpec == StatusInit /\ [][StatusNext]_vars

\* ----------------------------------------------------------------- claims

Terminal == {"freed", "canceled", "timeout", "failed"}

\* C1: every step leaves the rank of a handle's status where it is or raises it, and
\* a step that changes the status name moves to a strictly higher rank.
C1_StatusRankOnlyRises ==
    [][\A h \in Handles :
          /\ locks'[h].currentStatus >= locks[h].currentStatus
          /\ locks'[h].currentStatus = lockStatusMap(locks'[h].currentStatusName)
          /\ (locks'[h].currentStatusName # locks[h].currentStatusName
                 => locks'[h].currentStatus > locks[h].currentStatus)]_vars

\* a handle that went from initialized through lock() and free() to freed
C1_Witness ==
    /\ locks["a"].currentStatusName = "freed"
    /\ locks["a"].lockResult = "ok"
    /\ locks["a"].freeResult = "ok"

\* C5: a call of lock() on a handle whose status is not initialized throws, sends
\* nothing, and changes neither the handle (status, lockId, the position and the
\* outcome of an earlier lock()) nor the service.
C5_LockOnlyFromInitialized ==
    [][\A h \in Handles :
          (ev'.op = "lock" /\ ev'.h = h /\ locks[h].currentStatusName # "initialized")
              => (ev'.res = "threw" /\ locks' = locks /\ svc' = svc)]_vars

\* a second lock() was refused while the create request of the first is in flight
C5_Witness ==
    /\ ev = [op |-> "lock", h |-> "a", res |-> "threw"]
    /\ locks["a"].currentStatusName = "acquiring"
    /\ locks["a"].lockPc = "post"

\* C8: free() without ignoreStatus on a handle whose status is not acquired throws,
\* sends nothing and changes nothing; free(true) is refused only by setStatus, that
\* is when the status is freeing or beyond.
C8_FreeNeedsAcquired ==
    [][\A h \in Handles :
          /\ (ev'.op = "free" /\ ev'.h = h /\ locks[h].currentStatusName # "acquired")
                => (ev'.res = "threw" /\ locks' = locks /\ svc' = svc)
          /\ (ev'.op = "freeIgnoreStatus" /\ ev'.h = h)
                => IF locks[h].currentStatus >= lockStatusMap("freeing")
                   THEN ev'.res = "threw" /\ locks'[h].freePc = locks[h].freePc
                   ELSE /\ ev'.res = "started"
                        /\ locks'[h].currentStatusName = "freeing"
                        /\ locks'[h].freePc = "resolve"]_vars

\* free() was refused on a handle that is still acquiring
C8_Witness ==
    /\ ev = [op |-> "free", h |-> "a", res |-> "threw"]
    /\ locks["a"].currentStatusName = "acquiring"
    /\ locks["a"].freePc = "idle"

\* a renew, create or delete request of a handle has failed, or a registry call has
RequestFailed(l) ==
    \/ l.kaPc = "err"
    \/ l.lockResult \in {"remote", "protocol", "status", "delay"}
    \/ l.freeResult \in {"remote", "status"}

\* C2: a handle with keepAlive that lock() acquired, that is still acquired and none
\* of whose requests failed, has its keep-alive running: it waits for the next
\* renewal or is sending it.
C2_KeepAliveKeepsRenewing ==
    \A h \in Handles :
        (/\ locks[h].resourceId # ""
         /\ locks[h].doKeepAlive
         /\ locks[h].currentStatusName = "acquired"
         /\ ~RequestFailed(locks[h]))
            => locks[h].kaPc \in {"wait", "resolve", "patch"}

\* C3: with requests that take no time and do not fail, two handles that createLock
\* made with keepAlive are never both acquired.
C3_NeverBothAcquired ==
    (/\ ~slow
     /\ \A h \in Handles :
           /\ locks[h].resourceId # ""
           /\ locks[h].doKeepAlive
           /\ ~RequestFailed(locks[h]))
        => ~(\A h \in Handles : locks[h].currentStatusName = "acquired")

\* C4: when the create request that was in flight at a cancel() is granted, lock()
\* does not succeed, the handle is not acquired, and the delete request of free() is
\* on its way.
C4_CancelInFlightFreesTheLock ==
    \A h \in Handles :
        (ev = [op |-> "create", h |-> h, res |-> "created"] /\ locks[h].canceledAt = "post")
            => /\ locks[h].lockResult # "ok"
               /\ locks[h].currentStatusName # "acquired"
               /\ locks[h].kaPc = "idle"
               /\ locks[h].freePc \in {"resolve", "delete"}

\* C6: no step changes a status that is freed, canceled, timeout or failed.
C6_TerminalStatusStays ==
    [][\A h \in Handles :
          locks[h].currentStatusName \in Terminal
              => locks'[h].currentStatusName = locks[h].currentStatusName]_vars

\* C7: a free() that started from acquired and is over has left the handle in freed
\* or failed.
C7_FreeEndsFreedOrFailed ==
    \A h \in Handles :
        (locks[h].freeFrom = "acquired" /\ locks[h].freePc = "done")
            => locks[h].currentStatusName \in {"freed", "failed"}

\* C9: after a create, renew or delete request failed, the handle's status is failed.
C9_FailedRequestSetsFailed ==
    \A h \in Handles :
        (ev.h = h /\ ev.op \in {"create", "renew", "delete"} /\ ev.res = "fail")
            => locks[h].currentStatusName = "failed"

\* C10: a create request that returns conflict raises lockCallCount by one, and the
\* wait that follows lasts backOffFactor ^ min(lockCallCount, backOffUpperBound)
\* seconds.
C10_ConflictCountsAndBacksOff ==
    [][\A h \in Handles :
          (ev'.op = "create" /\ ev'.h = h /\ ev'.res = "conflict")
              => /\ locks'[h].lockCallCount = locks[h].lockCallCount + 1
                 /\ locks'[h].tryLockTimeout =
                        startDelay(now, BackOffMs(locks'[h].lockCallCount))]_vars

\* C11 as claimed: a back-off wait of a lock() that is still acquiring ends, when it
\* ran its full time, in the next attempt if the deadline (lockStart + timeout) lies
\* ahead and otherwise in the end of lock(): timeout error, status timeout, no lockId,
\* no keep-alive; and no create request is sent once the deadline has passed.
C11_NoCreateAfterDeadline ==
    [][\A h \in Handles :
          /\ (/\ ev'.op = "backoff" /\ ev'.h = h
              /\ locks[h].tryLockTimeout.st = "pending"
              /\ locks[h].currentStatusName = "acquiring")
                => IF locks[h].lockStart + (locks[h].timeout * 1000) > now
                   THEN /\ locks'[h].lockPc = "resolve"
                        /\ locks'[h].currentStatusName = "acquiring"
                   ELSE /\ locks'[h].lockPc = "done"
                        /\ locks'[h].lockResult = "timeout"
                        /\ locks'[h].currentStatusName = "timeout"
                        /\ locks'[h].lockId = 0
                        /\ locks'[h].kaPc = "idle"
          /\ (ev'.op = "lockResolve" /\ ev'.h = h /\ ev'.res = "ok")
                => locks[h].lockStart + (locks[h].timeout * 1000) > now]_vars

\* C11: a back-off wait of a lock() that is still acquiring ends, when it ran its
\* full time, in the next attempt if the deadline lies ahead and otherwise in the end
\* of lock(): timeout error, status timeout, no lockId, no keep-alive; and no attempt
\* (registry call, then create request) is begun once the deadline has passed.
C11_TimeoutEndsLock ==
    [][\A h \in Handles :
          /\ (/\ ev'.op = "backoff" /\ ev'.h = h
              /\ locks[h].tryLockTimeout.st = "pending"
              /\ locks[h].currentStatusName = "acquiring")
                => IF locks[h].lockStart + (locks[h].timeout * 1000) > now
                   THEN /\ locks'[h].lockPc = "resolve"
                        /\ locks'[h].currentStatusName = "acquiring"
                   ELSE /\ locks'[h].lockPc = "done"
                        /\ locks'[h].lockResult = "timeout"
                        /\ locks'[h].currentStatusName = "timeout"
                        /\ locks'[h].lockId = 0
                        /\ locks'[h].kaPc = "idle"
          /\ (locks'[h].lockPc = "resolve" /\ locks[h].lockPc # "resolve")
                => locks'[h].lockStart + (locks'[h].timeout * 1000) > now]_vars

\* lock() of a handle with keepAlive has ended with the timeout error at its deadline
C11_Witness ==
    /\ ev = [op |-> "backoff", h |-> "a", res |-> "over"]
    /\ locks["a"].lockResult = "timeout"
    /\ locks["a"].currentStatusName = "timeout"
    /\ locks["a"].doKeepAlive
    /\ locks["a"].tryLockTimeout = firedDelay

\* C12: a cancel() during a back-off wait of lock() ends the wait at once without
\* leaving lock() pending for ever, and after it the handle sends no create request
\* and does not become acquired.
C12_CancelStopsTheLoop ==
    [][\A h \in Handles :
          /\ (/\ ev'.op = "cancel" /\ ev'.h = h
              /\ locks[h].lockPc = "wait"
              /\ locks[h].tryLockTimeout.st = "pending")
                => /\ locks'[h].tryLockTimeout.st # "pending"
                   /\ locks'[h].lockPc # "hung"
          /\ locks[h].canceledAt = "wait"
                => /\ ~(ev'.op = "lockResolve" /\ ev'.h = h /\ ev'.res = "ok")
                   /\ locks'[h].currentStatusName # "acquired"]_vars

\* C13: a step changes the lockId of a handle only from none to an identifier, and
\* only when the constructor adopts a lock or a create request is granted; getId()
\* throws while isAcquired() is false, and once isAcquired() is true it stays true
\* and getId() returns the same identifier after every step.
C13_LockIdAssignedOnce ==
    [][\A h \in Handles :
          /\ locks'[h].lockId # locks[h].lockId
                => /\ locks[h].lockId = 0
                   /\ ev'.h = h
                   /\ ev'.op \in {"adoptLock", "create"}
          /\ ~isAcquired(locks'[h]) => getId(locks'[h]).threw
          /\ isAcquired(locks[h])
                => /\ isAcquired(locks'[h])
                   /\ ~getId(locks'[h]).threw
                   /\ getId(locks'[h]) = getId(locks[h])]_vars

\* a handle that took its lock with lock() and freed it still returns the lock's id
C13_Witness ==
    /\ ev = [op |-> "delete", h |-> "a", res |-> "ok"]
    /\ locks["a"].currentStatusName = "freed"
    /\ locks["a"].resourceId # ""
    /\ ~getId(locks["a"]).threw
    /\ getId(locks["a"]).id = nextId - 1

\* C14 says that some run of a handle with a cancel() in it ends in the status
\* canceled. That is a statement about the existence of a run, which no formula over
\* all runs expresses. What holds of all runs is its opposite: no handle ever has the
\* status canceled, whether cancel() was called on it or not.
C14_NeverCanceled ==
    \A h \in Handles : locks[h].currentStatusName # "canceled"

\* C15: adoptLock(id) leaves the handle acquired, with isAcquired() true and getId()
\* returning id, no registry or service call pending and nothing sent; the handle sends
\* at most one delete request, a free() of it that got the service's address has sent
\* exactly one, and when that request succeeds free() ends without error in freed.
C15_AdoptedIsAcquiredAndFrees ==
    [][\A h \in Handles :
          /\ (ev'.op = "adoptLock" /\ ev'.h = h)
                => /\ locks'[h].currentStatusName = "acquired"
                   /\ locks'[h].currentStatus = lockStatusMap("acquired")
                   /\ isAcquired(locks'[h])
                   /\ getId(locks'[h]) \in {[threw |-> FALSE, id |-> id] : id \in AdoptIds}
                   /\ ~callPending(locks'[h])
                   /\ locks'[h].deleteCount = 0
                   /\ svc' = svc
          /\ (locks'[h] # Unconstructed /\ locks'[h].resourceId = "")
                => /\ locks'[h].deleteCount <= 1
                   /\ locks'[h].freePc = "delete" => locks'[h].deleteCount = 1
                   /\ (ev'.op = "delete" /\ ev'.h = h)
                         => /\ locks[h].deleteCount = 1
                            /\ locks'[h].deleteCount = 1
                            /\ locks'[h].freePc = "done"
                   /\ (ev'.op = "delete" /\ ev'.h = h /\ ev'.res = "ok")
                         => /\ locks'[h].freeResult = "ok"
                            /\ locks'[h].currentStatusName = "freed"
                            /\ svc' = NoLock]_vars

\* an adopted handle has freed the lock another client had taken
C15_Witness ==
    /\ ev = [op |-> "delete", h |-> "a", res |-> "ok"]
    /\ locks["a"].resourceId = ""
    /\ locks["a"].lockId \in AdoptIds
    /\ locks["a"].currentStatusName = "freed"
    /\ locks["a"].deleteCount = 1
    /\ locks["a"].lockPc = "idle"

\* C16 as claimed, for two handles of one resource: a create request of one handle
\* that returns after the delete request of the other has succeeded is granted, and
\* lock() ends without error in acquired; and lock() of a handle does not end with
\* the timeout error when the other handle's delete succeeded before its deadline.
C16_WaiterGetsFreedLock ==
    [][\A h \in Handles : \A o \in Handles \ {h} :
          (world = "pair" /\ locks[o].freeResult = "ok" /\ ev'.h = h)
              => /\ ev'.op = "create"
                    => /\ ev'.res = "created"
                       /\ locks'[h].currentStatusName = "acquired"
                       /\ locks'[h].lockResult = "ok"
                       /\ getId(locks'[h]) = [threw |-> FALSE, id |-> svc'.id]
                 /\ (locks[h].lockResult = "none" /\ locks'[h].lockResult = "timeout")
                    => ~(locks[o].freedAt < locks[h].lockStart + (locks[h].timeout * 1000))]_vars

\* C16: for two handles of one resource, a create request of one handle that returns
\* after the delete request of the other has succeeded is granted, and lock() ends
\* without error in acquired; lock() of a handle ends with the timeout error although
\* the other handle's delete succeeded before its deadline only when that delete
\* succeeded during the handle's last back-off wait.
C16_RetryAfterFreeIsGranted ==
    [][\A h \in Handles : \A o \in Handles \ {h} :
          (world = "pair" /\ locks[o].freeResult = "ok" /\ ev'.h = h)
              => /\ ev'.op = "create"
                    => /\ ev'.res = "created"
                       /\ locks'[h].currentStatusName = "acquired"
                       /\ locks'[h].lockResult = "ok"
                       /\ getId(locks'[h]) = [threw |-> FALSE, id |-> svc'.id]
                 /\ (/\ locks[h].lockResult = "none" /\ locks'[h].lockResult = "timeout"
                     /\ locks[o].freedAt < locks[h].lockStart + (locks[h].timeout * 1000))
                    => /\ ev'.op = "backoff"
                       /\ locks[h].tryLockTimeout.st = "pending"
                       /\ locks[o].freedAt >=
                              locks[h].tryLockTimeout.due - BackOffMs(locks[h].lockCallCount)]_vars

\* handle b, which had to wait, was granted the lock that handle a has freed
C16_Witness ==
    /\ world = "pair"
    /\ ev = [op |-> "create", h |-> "b", res |-> "created"]
    /\ locks["a"].freeResult = "ok"
    /\ locks["a"].freedAt > 0
    /\ locks["b"].tryLockTimeout = firedDelay
    /\ locks["b"].currentStatusName = "acquired"
    /\ locks["b"].lockResult = "ok"

\* C17: when a create request of a handle is granted, the handle records the granted
\* identifier as its lockId, or, its status being beyond acquired, lock() is freeing
\* the lock (the registry call or the delete request of free() is pending) and has
\* not ended without error.
C17_GrantedLockNotLeaked ==
    [][\A h \in Handles :
          (ev'.op = "create" /\ ev'.h = h /\ ev'.res = "created")
              => \/ getId(locks'[h]) = [threw |-> FALSE, id |-> svc'.id]
                 \/ /\ locks[h].currentStatus > lockStatusMap("acquired")
                    /\ locks'[h].lockPc = "free"
                    /\ locks'[h].freePc \in {"resolve", "delete"}
                    /\ locks'[h].lockResult # "ok"]_vars

\* C18: of the create request of lock(), the renew request of keepAlive() and the
\* delete request of free(), a handle has at most one in flight at a time; checked
\* for a handle whose free() was called on the status acquired (or not at all) and
\* whose keep-alive was not woken by the cancel() of its delay.
C18_OneRequestInFlight ==
    \A h \in Handles :
        (/\ locks[h].freeFrom \in {"", "acquired"}
         /\ locks[h].kaPc = "patch" => locks[h].keepAliveTimeout = firedDelay)
            => /\ ~(locks[h].lockPc = "post" /\ locks[h].kaPc = "patch")
               /\ ~(locks[h].lockPc = "post" /\ locks[h].freePc = "delete")
               /\ ~(locks[h].kaPc = "patch" /\ locks[h].freePc = "delete")

\* C19: keepAlive() sends its renew request only while the status of the handle is
\* acquired; checked for a keep-alive whose wait ran its full time, not one woken by
\* the cancel() of its delay.
C19_RenewOnlyWhileAcquired ==
    [][\A h \in Handles :
          (/\ ev'.op = "keepAliveResolve" /\ ev'.h = h /\ ev'.res = "ok"
           /\ locks[h].keepAliveTimeout = firedDelay)
              => locks[h].currentStatusName = "acquired"]_vars

\* C20: when the delete request of a free() that was called on the status acquired
\* succeeds, free() ends without error and the status is freed; when it fails, the
\* status is failed and free() rejects with the error of the delete request. Checked
\* for a handle whose keep-alive, if it is past its wait, was not woken by the
\* cancel() of its delay.
C20_FreeEndsByItsDelete ==
    [][\A h \in Handles :
          (/\ ev'.op = "delete" /\ ev'.h = h
           /\ locks[h].freeFrom = "acquired"
           /\ locks[h].keepAliveTimeout.st \in {"none", "pending", "fired"})
              => IF ev'.res = "ok"
                 THEN /\ locks'[h].freeResult = "ok"
                      /\ locks'[h].currentStatusName = "freed"
                 ELSE /\ locks'[h].freeResult = "remote"
                      /\ locks'[h].currentStatusName = "failed"]_vars

\* C21: when a renew request of a handle in the status acquired fails, the status
\* becomes failed, keepAlive() ends with the error, and lock(), which has ended
\* without error before, keeps that outcome; a keepAlive() that has ended with an
\* error sends no renew request any more.
C21_RenewFailureSetsFailed ==
    [][\A h \in Handles :
          /\ (/\ ev'.op = "renew" /\ ev'.h = h /\ ev'.res = "fail"
              /\ locks[h].currentStatusName = "acquired")
                => /\ locks'[h].currentStatusName = "failed"
                   /\ locks'[h].currentStatus = lockStatusMap("failed")
                   /\ locks'[h].kaPc = "err"
                   /\ locks[h].lockPc = "done" /\ locks[h].lockResult = "ok"
                   /\ locks'[h].lockPc = "done" /\ locks'[h].lockResult = "ok"
          /\ locks[h].kaPc = "err"
                => /\ locks'[h].kaPc = "err"
                   /\ ~(ev'.h = h /\ ev'.op \in {"keepAlive", "keepAliveResolve", "renew"})]_vars

\* the renew request of a handle that nobody has freed or canceled has failed
C21_Witness ==
    /\ ev = [op |-> "renew", h |-> "a", res |-> "fail"]
    /\ locks["a"].currentStatusName = "failed"
    /\ locks["a"].freePc = "idle"
    /\ locks["a"].cancelPc = "idle"
    /\ locks["a"].lockResult = "ok"
    /\ locks["a"].kaPc = "err"

\* C22: a handle that adoptLock made with keepAlive and that is still acquired has
\* its renewal activity under way: keepAlive() waits for the next renewal or is
\* sending it.
C22_AdoptedHandleRenews ==
    \A h \in Handles :
        (/\ locks[h] # Unconstructed
         /\ locks[h].resourceId = ""
         /\ locks[h].doKeepAlive
         /\ locks[h].currentStatusName = "acquired")
            => locks[h].kaPc \in {"wait", "resolve", "patch"}

\* C23 as claimed: a call of setStatus with a name whose rank is not above the
\* current rank, or with a name that lockStatusMap does not have, throws and leaves
\* the name and the rank of the status as they were.
C23_RejectedChangeKeepsStatus ==
    [][\A h \in Handles :
          (ev'.op = "setStatus" /\ ev'.h = h)
              => /\ (\/ ev'.arg \notin StatusNames
                     \/ lockStatusMap(ev'.arg) <= locks[h].currentStatus)
                       => ev'.res = "threw"
                 /\ ev'.res = "threw"
                       => /\ locks'[h].currentStatusName = locks[h].currentStatusName
                          /\ locks'[h].currentStatus = locks[h].currentStatus]_vars

\* C23: a call of setStatus with a known name whose rank is not above the current
\* rank throws and leaves the name and the rank of the status as they were; a call
\* with a name that lockStatusMap does not have throws and leaves the status failed;
\* no other call throws.
C23_UnknownNameSetsFailed ==
    [][\A h \in Handles :
          (ev'.op = "setStatus" /\ ev'.h = h)
              => /\ (ev'.arg \in StatusNames /\ lockStatusMap(ev'.arg) <= locks[h].currentStatus)
                       => /\ ev'.res = "threw"
                          /\ locks'[h].currentStatusName = locks[h].currentStatusName
                          /\ locks'[h].currentStatus = locks[h].currentStatus
                 /\ ev'.arg \notin StatusNames
                       => /\ ev'.res = "threw"
                          /\ locks'[h].currentStatusName = "failed"
                          /\ locks'[h].currentStatus = 999
                 /\ (ev'.arg \in StatusNames /\ lockStatusMap(ev'.arg) > locks[h].currentStatus)
                       => ev'.res = "ok"]_vars

\* setStatus with an unknown name has thrown on a handle that was acquired before
C23_Witness ==
    /\ ev = [op |-> "setStatus", h |-> "a", res |-> "threw", arg |-> "unknown"]
    /\ locks["a"].currentStatusName = "failed"
    /\ locks["a"].lockId \in AdoptIds

\* C24: a handle sends a create, renew or delete request only in the step in which
\* the registry call of that same attempt returns, and the step that takes the answer
\* of the request ends the attempt: the next request needs a registry call of its own.
C24_FreshResolveBeforeEachRequest ==
    [][\A h \in Handles :
          /\ (locks'[h].lockPc = "post" /\ locks[h].lockPc # "post")
                => /\ locks[h].lockPc = "resolve"
                   /\ ev' = [op |-> "lockResolve", h |-> h, res |-> "ok"]
          /\ (locks'[h].kaPc = "patch" /\ locks[h].kaPc # "patch")
                => /\ locks[h].kaPc = "resolve"
                   /\ ev' = [op |-> "keepAliveResolve", h |-> h, res |-> "ok"]
          /\ (locks'[h].freePc = "delete" /\ locks[h].freePc # "delete")
                => /\ locks[h].freePc = "resolve"
                   /\ ev' = [op |-> "freeResolve", h |-> h, res |-> "ok"]
          /\ (ev'.op = "create" /\ ev'.h = h)
                => (locks[h].lockPc = "post" /\ locks'[h].lockPc # "post")
          /\ (ev'.op = "renew" /\ ev'.h = h)
                => (locks[h].kaPc = "patch" /\ locks'[h].kaPc # "patch")
          /\ (ev'.op = "delete" /\ ev'.h = h)
                => (locks[h].freePc = "delete" /\ locks'[h].freePc # "delete")]_vars

\* a retry of lock() has sent its create request after a registry call of its own
C24_Witness ==
    /\ ev = [op |-> "lockResolve", h |-> "a", res |-> "ok"]
    /\ locks["a"].lockPc = "post"
    /\ locks["a"].tryLockTimeout = firedDelay

====
